---- MODULE Spec2Model ----
(***************************************************************************)
(* Scoring and reconciliation core of my-analysis-ai.                      *)
(*                                                                         *)
(*  - logic/diagnostic.py : calculate_dimension_score and                  *)
(*    calculate_personality_type over data/questions.py's catalog          *)
(*  - logic/analysis.py   : detect_blind_spots over BLIND_SPOT_PATTERNS    *)
(*  - models/data_models.py : the pydantic models and their validators     *)
(*                                                                         *)
(* Conventions.  Python floats that only ever hold small whole numbers     *)
(* (first_score, second_score) are integers here.  strength_percent is the *)
(* one float with a fraction: it is round(x, 1), a multiple of 0.1, and is *)
(* carried as an integer number of TENTHS of a percent (1000 = 100.0).     *)
(* A Python str is a sequence of Unicode code points (integers); type      *)
(* letters are one-character TLA+ strings.                                 *)
(***************************************************************************)
EXTENDS Integers, Sequences, FiniteSets, TLC

VARIABLES
    responses,     \* list[UserResponse] handed to calculate_personality_type
    user_id,       \* the user id handed to calculate_personality_type
    now,           \* the wall clock read by datetime.now
    result,        \* the latest PersonalityResult (also read by detect_blind_spots)
    earlier,       \* what the call before the latest one returned
    journals,      \* list[JournalEntry] handed to detect_blind_spots
    insights,      \* [list |-> the list detect_blind_spots returned]
    estimated_scores,  \* dict[str, float] handed to _render_axis_comparison
    comparison,    \* what _render_axis_comparison drew, with its arguments
    offered,       \* the latest (question_id, score) a caller tried to record
    outcome,       \* what the UserResponse constructor did with it
    calls,         \* per caller: the invocation under way, its arguments and return value
    frames,        \* the local variables of the invocations
    session        \* st.session_state of the questionnaire

vars == <<responses, user_id, now, result, earlier, journals, insights,
          estimated_scores, comparison, offered, outcome, calls, frames,
          session>>

\* the state of the comparison view of ui/analysis_ui.py
driftVars == <<estimated_scores, comparison>>
\* the state of the construction of the answers
intakeVars == <<offered, outcome>>
\* the state of the invocations that run side by side
callVars == <<calls, frames>>

(***************************************************************************)
(* Bounds of the model                                                     *)
(***************************************************************************)
MaxAnswers == 2      \* longest free-form answer list
MaxClock == 1        \* how far the wall clock advances
MaxJournals == 4     \* longest journal list

(***************************************************************************)
(* models/data_models.py                                                   *)
(***************************************************************************)
\* raised by a pydantic constructor; the call that meets it returns nothing else
ValidationError == [error |-> "ValidationError"]
\* no call has returned yet
NoResult == [pending |-> TRUE]
\* r is a value a call returned
Returned(r) == r # NoResult /\ r # ValidationError

\* UserResponse.score: Field(..., ge=1, le=5)
MinScore == 1
MaxScore == 5
\* DimensionScore.strength_percent: Field(..., ge=0, le=100), in tenths
MinStrength == 0
MaxStrength == 1000
\* PersonalityResult.personality_type: min_length=4, max_length=4
TypeLength == 4

Dimension == <<"EI", "SN", "TF", "JP">>

POSITIVE == "positive"
NEGATIVE == "negative"

Question(id, dimension, direction) ==
    [id |-> id, dimension |-> dimension, direction |-> direction]

\* UserResponse without the bounds on score
UserResponse_unchecked(uid, question_id, score, timestamp) ==
    [user_id |-> uid, question_id |-> question_id, score |-> score,
     timestamp |-> timestamp]

UserResponse(uid, question_id, score, timestamp) ==
    IF score >= MinScore /\ score <= MaxScore
    THEN [user_id |-> uid, question_id |-> question_id, score |-> score,
          timestamp |-> timestamp]
    ELSE ValidationError

\* DimensionScore with a creation time filled in by default, as the other
\* models have
DimensionScore_stamped(dimension, first_type, second_type, first_score, second_score, dominant, strength) ==
    IF strength >= MinStrength /\ strength <= MaxStrength
    THEN [dimension |-> dimension, first_type |-> first_type,
          second_type |-> second_type, first_score |-> first_score,
          second_score |-> second_score, dominant_type |-> dominant,
          strength_percent |-> strength, computed_at |-> now]
    ELSE ValidationError

\* DimensionScore with the two totals stored in each other's field
DimensionScore_crossed(dimension, first_type, second_type, first_score, second_score, dominant, strength) ==
    IF strength >= MinStrength /\ strength <= MaxStrength
    THEN [dimension |-> dimension, first_type |-> first_type,
          second_type |-> second_type, first_score |-> second_score,
          second_score |-> first_score, dominant_type |-> dominant,
          strength_percent |-> strength]
    ELSE ValidationError

DimensionScore(dimension, first_type, second_type, first_score, second_score, dominant, strength) ==
    IF strength >= MinStrength /\ strength <= MaxStrength
    THEN [dimension |-> dimension, first_type |-> first_type,
          second_type |-> second_type, first_score |-> first_score,
          second_score |-> second_score, dominant_type |-> dominant,
          strength_percent |-> strength]
    ELSE ValidationError

PersonalityResult(uid, personality_type, dimension_scores) ==
    IF Len(personality_type) = TypeLength
    THEN [user_id |-> uid, personality_type |-> personality_type,
          dimension_scores |-> dimension_scores, diagnosed_at |-> now]
    ELSE ValidationError

(***************************************************************************)
(* data/questions.py                                                       *)
(***************************************************************************)
DIAGNOSTIC_QUESTIONS == <<
    Question(1, "EI", POSITIVE), Question(2, "EI", NEGATIVE),
    Question(3, "EI", POSITIVE), Question(4, "EI", NEGATIVE),
    Question(5, "EI", POSITIVE), Question(6, "EI", NEGATIVE),
    Question(7, "EI", POSITIVE), Question(8, "EI", NEGATIVE),
    Question(9, "SN", POSITIVE), Question(10, "SN", NEGATIVE),
    Question(11, "SN", POSITIVE), Question(12, "SN", NEGATIVE),
    Question(13, "SN", POSITIVE), Question(14, "SN", NEGATIVE),
    Question(15, "SN", POSITIVE),
    Question(16, "TF", POSITIVE), Question(17, "TF", NEGATIVE),
    Question(18, "TF", POSITIVE), Question(19, "TF", NEGATIVE),
    Question(20, "TF", POSITIVE), Question(21, "TF", NEGATIVE),
    Question(22, "TF", POSITIVE), Question(23, "TF", NEGATIVE),
    Question(24, "JP", POSITIVE), Question(25, "JP", NEGATIVE),
    Question(26, "JP", POSITIVE), Question(27, "JP", NEGATIVE),
    Question(28, "JP", POSITIVE), Question(29, "JP", NEGATIVE),
    Question(30, "JP", POSITIVE) >>

None == [none |-> TRUE]

RECURSIVE FirstWithId(_, _, _)
FirstWithId(questions, i, question_id) ==
    IF i > Len(questions) THEN None
    ELSE IF questions[i].id = question_id THEN questions[i]
    ELSE FirstWithId(questions, i + 1, question_id)

get_question_by_id(question_id) ==
    FirstWithId(DIAGNOSTIC_QUESTIONS, 1, question_id)

get_total_questions == Len(DIAGNOSTIC_QUESTIONS)

(***************************************************************************)
(* logic/diagnostic.py                                                     *)
(***************************************************************************)
type_mapping ==
    [d \in {"EI", "SN", "TF", "JP"} |->
        CASE d = "EI" -> <<"E", "I">>
          [] d = "SN" -> <<"S", "N">>
          [] d = "TF" -> <<"T", "F">>
          [] d = "JP" -> <<"J", "P">>]

Abs(x) == IF x < 0 THEN -x ELSE x

\* the questions of the axis, kept as the set of their ids
question_ids(dimension) ==
    {DIAGNOSTIC_QUESTIONS[i].id :
        i \in {j \in 1..Len(DIAGNOSTIC_QUESTIONS) :
                  DIAGNOSTIC_QUESTIONS[j].dimension = dimension}}

\* the filter on the axis's question ids left out
dimension_responses_all(rs, dimension) == rs

\* of several answers to one question only the latest is kept
dimension_responses_latest(rs, dimension) ==
    LET ids == question_ids(dimension)
        kept == {k \in 1..Len(rs) :
                    /\ rs[k].question_id \in ids
                    /\ \A later \in (k + 1)..Len(rs) :
                           rs[later].question_id # rs[k].question_id}
    IN  [n \in 1..Cardinality(kept) |->
            rs[CHOOSE k \in kept : Cardinality({j \in kept : j < k}) = n - 1]]

dimension_responses(rs, dimension) ==
    LET ids == question_ids(dimension)
    IN  SelectSeq(rs, LAMBDA r : r.question_id \in ids)

\* the score used as it is, without the shift to 0..4
normalized_score_raw(response) == response.score

\* the shift to 0..4 in steps of two
normalized_score_coarse(response) == 2 * ((response.score - 1) \div 2)

normalized_score(response) == response.score - 1

\* the complement taken against 5, the top of the raw scale
accumulate_five(scores, response) ==
    LET question == get_question_by_id(response.question_id)
    IN  IF question = None THEN scores
        ELSE IF question.direction = POSITIVE
        THEN <<scores[1] + normalized_score(response),
               scores[2] + (5 - normalized_score(response))>>
        ELSE <<scores[1] + (5 - normalized_score(response)),
               scores[2] + normalized_score(response)>>

\* one pass of the loop body: <<first_score, second_score>> after `response`
\* a NEGATIVE question only adds to the second pole
accumulate_one_sided(scores, response) ==
    LET question == get_question_by_id(response.question_id)
    IN  IF question = None THEN scores
        ELSE IF question.direction = POSITIVE
        THEN <<scores[1] + normalized_score(response),
               scores[2] + (4 - normalized_score(response))>>
        ELSE <<scores[1], scores[2] + normalized_score(response)>>

accumulate(scores, response) ==
    LET question == get_question_by_id(response.question_id)
    IN  IF question = None THEN scores
        ELSE IF question.direction = POSITIVE
        THEN <<scores[1] + normalized_score(response),
               scores[2] + (4 - normalized_score(response))>>
        ELSE <<scores[1] + (4 - normalized_score(response)),
               scores[2] + normalized_score(response)>>

\* the loop over rs[lo..hi] in list order, the running totals handed from
\* each answer to the next; the span is walked in two halves so that a list
\* of a thousand answers needs no thousand nested evaluations
RECURSIVE score_loop(_, _, _, _)
score_loop(rs, lo, hi, scores) ==
    IF lo > hi THEN scores
    ELSE IF lo = hi THEN accumulate(scores, rs[lo])
    ELSE LET mid == (lo + hi) \div 2
             done == score_loop(rs, lo, mid, scores)
         IN  \* the totals of rs[lo..mid] are worked out before the loop
             \* goes on to rs[mid+1..hi]
             IF Len(done) = 2
             THEN score_loop(rs, mid + 1, hi, done)
             ELSE done

\* the tenths cut off instead of rounded
round1_floor(num, den) == (1000 * num) \div den

\* Python's round(x, 1) of the double x = num / den * 100, in tenths:
\* the nearest multiple of 0.1, an exact half going to the even digit.
\* (An exact half needs 1000*num/den = k + 1/2; for fewer than 40 answers
\* on the axis it only arises from sixteenths, which the double holds
\* exactly, so the decimal tie rule is the one that applies.)
round1(num, den) ==
    LET scaled == 1000 * num
        q == scaled \div den
        twice == 2 * (scaled % den)
    IN  IF twice < den THEN q
        ELSE IF twice > den THEN q + 1
        ELSE IF q % 2 = 0 THEN q ELSE q + 1

\* the share of the first pole in place of the gap between the poles
strength_percent_share(first_score, second_score) ==
    LET total_score == first_score + second_score
    IN  IF total_score > 0
        THEN round1(first_score, total_score)
        ELSE 0

strength_percent(first_score, second_score) ==
    LET total_score == first_score + second_score
    IN  IF total_score > 0
        THEN round1(Abs(first_score - second_score), total_score)
        ELSE 0

\* > in place of >=
dominant_type_strict(first_type, second_type, first_score, second_score) ==
    IF first_score > second_score THEN first_type ELSE second_type

dominant_type(first_type, second_type, first_score, second_score) ==
    IF first_score >= second_score THEN first_type ELSE second_type

calculate_dimension_score(rs, dimension) ==
    LET first_type == type_mapping[dimension][1]
        second_type == type_mapping[dimension][2]
        answers == dimension_responses(rs, dimension)
        scores == score_loop(answers, 1, Len(answers), <<0, 0>>)
        first_score == scores[1]
        second_score == scores[2]
    IN  DimensionScore(dimension, first_type, second_type,
                       first_score, second_score,
                       dominant_type(first_type, second_type,
                                     first_score, second_score),
                       strength_percent(first_score, second_score))

\* the axes walked in another order
dimension_order_swapped == <<"EI", "TF", "SN", "JP">>

dimension_order == <<"EI", "SN", "TF", "JP">>

calculate_personality_type(rs, uid) ==
    LET dimension_scores ==
            [i \in 1..Len(dimension_order) |->
                calculate_dimension_score(rs, dimension_order[i])]
    IN  IF \E i \in 1..Len(dimension_scores) :
               dimension_scores[i] = ValidationError
        THEN ValidationError
        ELSE PersonalityResult(
                 uid,
                 [i \in 1..Len(dimension_scores) |->
                     dimension_scores[i].dominant_type],
                 dimension_scores)

(***************************************************************************)
(* Inputs of the scoring functions                                         *)
(***************************************************************************)
\* calculate_personality_type(responses, user_id="default_user")
DefaultUser == "default_user"
UserIds == {DefaultUser, "user_a"}

\* question ids offered to a free-form answer list: both directions, every
\* axis, and two ids (0, 31) that are not in the catalog
SampleQuestionIds == {0, 1, 2, 9, 17, 24, 31}

\* scores a caller may try to put in a UserResponse
OfferedScores == (MinScore - 1)..(MaxScore + 1)

\* the UserResponse objects that exist: the constructor rejected the others
Answers(uid, ids) ==
    {UserResponse(uid, q, s, 0) : q \in ids, s \in OfferedScores} \ {ValidationError}

FreeLists(uid) ==
    UNION {[1..n -> Answers(uid, SampleQuestionIds)] : n \in 0..MaxAnswers}

\* a completed questionnaire in catalog order, as submit_diagnostic of
\* ui/diagnostic_ui.py builds it: among the first k questions the POSITIVE
\* ones are scored a and the NEGATIVE ones b; the others are scored c
FullSheet(uid, a, b, c, k) ==
    [i \in 1..get_total_questions |->
        UserResponse(uid, DIAGNOSTIC_QUESTIONS[i].id,
                     IF i > k THEN c
                     ELSE IF DIAGNOSTIC_QUESTIONS[i].direction = POSITIVE THEN a
                     ELSE b,
                     0)]

FullSheets(uid) ==
    {FullSheet(uid, a, b, c, k) :
        a \in MinScore..MaxScore, b \in MinScore..MaxScore,
        c \in MinScore..MaxScore, k \in 0..get_total_questions}

AnswerLists(uid) == FreeLists(uid) \cup FullSheets(uid)

(***************************************************************************)
(* The scoring state machine                                               *)
(***************************************************************************)
\* no questionnaire session
SessionIdle == session = NoResult

\* no invocation by a second caller
CallIdle ==
    /\ calls = << >>
    /\ frames = << >>

\* no answer has been offered
IntakeIdle ==
    /\ offered = NoResult
    /\ outcome = NoResult

\* the comparison view has not been drawn
DriftIdle ==
    /\ estimated_scores = << >>
    /\ comparison = NoResult

InitScore ==
    /\ user_id = DefaultUser
    /\ responses \in AnswerLists(user_id)
    /\ now = 0
    /\ result = NoResult
    /\ earlier = NoResult
    /\ journals = << >>
    /\ insights = NoResult
    /\ DriftIdle
    /\ IntakeIdle
    /\ CallIdle
    /\ SessionIdle

\* time passes between two calls
Tick ==
    /\ now < MaxClock
    /\ now' = now + 1
    /\ UNCHANGED <<responses, user_id, result, earlier, journals, insights, driftVars, intakeVars, callVars,
                   session>>

\* result = calculate_personality_type(responses, user_id)
Diagnose ==
    /\ result' = calculate_personality_type(responses, user_id)
    /\ earlier' = result
    /\ UNCHANGED <<responses, user_id, now, journals, insights, driftVars, intakeVars, callVars,
                   session>>

NextScore == Diagnose

SpecScore == InitScore /\ [][NextScore]_vars

\* the same call repeated, by either user, while the clock moves on
InitRepeat ==
    /\ user_id \in UserIds
    /\ responses \in AnswerLists(user_id)
    /\ now = 0
    /\ result = NoResult
    /\ earlier = NoResult
    /\ journals = << >>
    /\ insights = NoResult
    /\ DriftIdle
    /\ IntakeIdle
    /\ CallIdle
    /\ SessionIdle

NextRepeat == Tick \/ Diagnose

SpecRepeat == InitRepeat /\ [][NextRepeat]_vars

(***************************************************************************)
(* logic/analysis.py                                                       *)
(***************************************************************************)
\* JournalEntry.content: min_length=1; emotion_score: ge=1, le=10
MinContentLength == 1
MinEmotion == 1
MaxEmotion == 10

JournalEntry(uid, date, content, emotion_score) ==
    IF /\ Len(content) >= MinContentLength
       /\ emotion_score >= MinEmotion /\ emotion_score <= MaxEmotion
    THEN [user_id |-> uid, date |-> date, content |-> content,
          emotion_score |-> emotion_score]
    ELSE ValidationError

BlindSpotInsight(category, description, evidence, recommendation, severity) ==
    [category |-> category, description |-> description, evidence |-> evidence,
     recommendation |-> recommendation, severity |-> severity]

\* The pattern table in its source order.  A keyword is the sequence of the
\* code points of its characters; the insight and recommendation sentences
\* are fixed texts that nothing inspects, named after their pattern.
BLIND_SPOT_PATTERNS == <<
    [id |-> "P_planning_stress", type |-> "P",
     keywords |-> << <<35336, 30011, 36890, 12426, 12395, 12356, 12363, 12394, 12356>>,
                      <<20104, 23450, 12364, 23849, 12428, 12383>>,
                      <<12452, 12521, 12452, 12521>> >>,
     insight |-> "P_planning_stress.insight",
     recommendation |-> "P_planning_stress.recommendation"],
    [id |-> "J_spontaneous_desire", type |-> "J",
     keywords |-> << <<12418, 12387, 12392, 33258, 30001, 12395>>,
                      <<32283, 12425, 12428, 12390, 12356, 12427>>,
                      <<31406, 23624>> >>,
     insight |-> "J_spontaneous_desire.insight",
     recommendation |-> "J_spontaneous_desire.recommendation"],
    [id |-> "T_emotional_struggle", type |-> "T",
     keywords |-> << <<24863, 24773, 30340, 12395, 12394, 12387, 12383>>,
                      <<27671, 25345, 12385, 12434, 25233, 12360, 12425, 12428, 12394, 12363, 12387, 12383>>,
                      <<24594, 12426>> >>,
     insight |-> "T_emotional_struggle.insight",
     recommendation |-> "T_emotional_struggle.recommendation"],
    [id |-> "F_logic_frustration", type |-> "F",
     keywords |-> << <<35542, 29702, 30340, 12395, 32771, 12360, 12425, 12428, 12394, 12356>>,
                      <<21512, 29702, 30340, 12395, 12394, 12428, 12394, 12356>>,
                      <<21177, 29575, 12364, 24746, 12356>> >>,
     insight |-> "F_logic_frustration.insight",
     recommendation |-> "F_logic_frustration.recommendation"],
    [id |-> "E_social_exhaustion", type |-> "E",
     keywords |-> << <<20154, 30130, 12428>>,
                      <<19968, 20154, 12395, 12394, 12426, 12383, 12356>>,
                      <<38745, 12363, 12395, 12375, 12383, 12356>> >>,
     insight |-> "E_social_exhaustion.insight",
     recommendation |-> "E_social_exhaustion.recommendation"],
    [id |-> "I_connection_desire", type |-> "I",
     keywords |-> << <<12418, 12387, 12392, 35441, 12375, 12383, 12363, 12387, 12383>>,
                      <<32331, 12364, 12426, 12383, 12356>>,
                      <<23396, 29420>> >>,
     insight |-> "I_connection_desire.insight",
     recommendation |-> "I_connection_desire.recommendation"] >>

\* code points of the punctuation the detector writes
Space == 32
Dot == 46
Hyphen == 45
LeftBracket == 91
RightBracket == 93
DigitZero == 48

\* ord() of a type letter
ord == [E |-> 69, I |-> 73, S |-> 83, N |-> 78, T |-> 84, F |-> 70, J |-> 74, P |-> 80]

\* the text after the letter in f"{pattern_type}..." (6 characters)
category_suffix == <<12479, 12452, 12503, 12398, 30450, 28857>>

\* needle in hay, for two Python strings
Contains(hay, needle) ==
    \/ Len(needle) = 0
    \/ \E i \in 1..(Len(hay) - Len(needle) + 1) :
          /\ hay[i] = needle[1]
          /\ SubSeq(hay, i, i + Len(needle) - 1) = needle

\* "".join([j.content for j in journals])
RECURSIVE join_contents_tight(_, _)
join_contents_tight(js, i) ==
    IF i > Len(js) THEN << >>
    ELSE js[i].content \o join_contents_tight(js, i + 1)

\* " ".join([j.content for j in journals])
RECURSIVE join_contents(_, _)
join_contents(js, i) ==
    IF i > Len(js) THEN << >>
    ELSE IF i = Len(js) THEN js[i].content
    ELSE js[i].content \o <<Space>> \o join_contents(js, i + 1)

\* n written with at least `width` decimal digits, zero padded
RECURSIVE digits(_, _)
digits(n, width) ==
    IF width <= 1 /\ n < 10 THEN <<DigitZero + n>>
    ELSE Append(digits(n \div 10, width - 1), DigitZero + (n % 10))

\* date.strftime('%Y-%m-%d'), for the four-digit years
strftime(date) ==
    digits(date.year, 4) \o <<Hyphen>> \o digits(date.month, 2)
        \o <<Hyphen>> \o digits(date.day, 2)

\* the 50 characters an excerpt keeps
ExcerptLength == 50
\* the entries an insight keeps as evidence
MaxEvidence == 3

\* >= in place of >
excerpt_of_inclusive(content) ==
    IF Len(content) >= ExcerptLength
    THEN SubSeq(content, 1, ExcerptLength) \o <<Dot, Dot, Dot>>
    ELSE content

excerpt_of(content) ==
    IF Len(content) > ExcerptLength
    THEN SubSeq(content, 1, ExcerptLength) \o <<Dot, Dot, Dot>>
    ELSE content

\* f"[{journal.date.strftime('%Y-%m-%d')}] {excerpt}"
evidence_line(journal) ==
    <<LeftBracket>> \o strftime(journal.date) \o <<RightBracket, Space>>
        \o excerpt_of(journal.content)

\* the slice left out
evidence_cap_none(evidence) == evidence

\* evidence[:3]
evidence_cap(evidence) ==
    SubSeq(evidence, 1,
           IF Len(evidence) < MaxEvidence THEN Len(evidence) ELSE MaxEvidence)

\* the type code only has to be there
pattern_applies_any(pattern_type, personality_type) == Len(personality_type) > 0

\* the check on the type code left out
pattern_applies_always(pattern_type, personality_type) == TRUE

\* `pattern_type not in personality.personality_type` is false
pattern_applies(pattern_type, personality_type) ==
    \E i \in 1..Len(personality_type) : personality_type[i] = pattern_type

\* only the first keyword of the pattern is looked for
matched_keywords_first(keywords, all_content) ==
    SelectSeq(SubSeq(keywords, 1, 1), LAMBDA kw : Contains(all_content, kw))

matched_keywords(keywords, all_content) ==
    SelectSeq(keywords, LAMBDA kw : Contains(all_content, kw))

\* the break left out: one line per matched keyword a journal holds
RECURSIVE evidence_loop_per_keyword(_, _, _)
evidence_loop_per_keyword(js, i, matched) ==
    IF i > Len(js) THEN << >>
    ELSE LET found == SelectSeq(matched, LAMBDA kw : Contains(js[i].content, kw))
         IN  [k \in 1..Len(found) |-> evidence_line(js[i])]
                 \o evidence_loop_per_keyword(js, i + 1, matched)

\* the inner loops: one line per journal holding a matched keyword
RECURSIVE evidence_loop(_, _, _)
evidence_loop(js, i, matched) ==
    IF i > Len(js) THEN << >>
    ELSE IF \E k \in 1..Len(matched) : Contains(js[i].content, matched[k])
    THEN <<evidence_line(js[i])>> \o evidence_loop(js, i + 1, matched)
    ELSE evidence_loop(js, i + 1, matched)

\* "medium" only from the third keyword on
severity_of_late(matched) == IF Len(matched) > 2 THEN "medium" ELSE "low"

severity_of(matched) == IF Len(matched) >= 2 THEN "medium" ELSE "low"

\* each new insight put in front of the list instead of at its end
RECURSIVE pattern_loop_front(_, _, _, _)
pattern_loop_front(i, personality, js, all_content) ==
    IF i > Len(BLIND_SPOT_PATTERNS) THEN << >>
    ELSE LET pattern == BLIND_SPOT_PATTERNS[i]
             matched == matched_keywords(pattern.keywords, all_content)
             rest == pattern_loop_front(i + 1, personality, js, all_content)
         IN  IF ~pattern_applies(pattern.type, personality.personality_type)
             THEN rest
             ELSE IF matched # << >>
             THEN rest \o <<BlindSpotInsight(
                        <<ord[pattern.type]>> \o category_suffix,
                        pattern.insight,
                        evidence_cap(evidence_loop(js, 1, matched)),
                        pattern.recommendation,
                        severity_of(matched))>>
             ELSE rest

\* the body of the loop over the patterns, from pattern i on
RECURSIVE pattern_loop(_, _, _, _)
pattern_loop(i, personality, js, all_content) ==
    IF i > Len(BLIND_SPOT_PATTERNS) THEN << >>
    ELSE LET pattern == BLIND_SPOT_PATTERNS[i]
             matched == matched_keywords(pattern.keywords, all_content)
             rest == pattern_loop(i + 1, personality, js, all_content)
         IN  IF ~pattern_applies(pattern.type, personality.personality_type)
             THEN rest
             ELSE IF matched # << >>
             THEN <<BlindSpotInsight(
                        <<ord[pattern.type]>> \o category_suffix,
                        pattern.insight,
                        evidence_cap(evidence_loop(js, 1, matched)),
                        pattern.recommendation,
                        severity_of(matched))>> \o rest
             ELSE rest

\* an empty journal list answered with a "nothing found" entry
detect_blind_spots_placeholder(personality, js) ==
    IF js = << >>
    THEN <<BlindSpotInsight(category_suffix, "none", << >>, "none", "low")>>
    ELSE pattern_loop(1, personality, js, join_contents(js, 1))

detect_blind_spots(personality, js) ==
    IF js = << >> THEN << >>
    ELSE pattern_loop(1, personality, js, join_contents(js, 1))

(***************************************************************************)
(* Inputs of the detector                                                  *)
(***************************************************************************)
\* four answers, one POSITIVE question per axis, each at an extreme: the
\* sixteen lists produce the sixteen type codes
ProbeLists(uid) ==
    {<<UserResponse(uid, 1, e, 0), UserResponse(uid, 9, s, 0),
       UserResponse(uid, 16, t, 0), UserResponse(uid, 24, j, 0)>> :
        e \in {MinScore, MaxScore}, s \in {MinScore, MaxScore},
        t \in {MinScore, MaxScore}, j \in {MinScore, MaxScore}}

Filler(n) == [i \in 1..n |-> 12354]

RECURSIVE Concat(_, _)
Concat(seqs, i) == IF i > Len(seqs) THEN << >> ELSE seqs[i] \o Concat(seqs, i + 1)

\* every keyword of every pattern, one after the other (109 characters)
AllKeywordsText ==
    Concat([i \in 1..Len(BLIND_SPOT_PATTERNS) |->
               Concat(BLIND_SPOT_PATTERNS[i].keywords, 1)], 1)

\* the journal texts offered: all keywords at once (long); one I keyword;
\* no keyword; exactly 50 characters with a P keyword; 51 characters with a
\* J keyword; one T and two E keywords together; an empty text (rejected)
SampleContents == <<
    AllKeywordsText,
    BLIND_SPOT_PATTERNS[6].keywords[3],
    Filler(5),
    BLIND_SPOT_PATTERNS[1].keywords[3] \o Filler(46),
    Filler(49) \o BLIND_SPOT_PATTERNS[2].keywords[3],
    BLIND_SPOT_PATTERNS[3].keywords[3] \o Filler(1) \o BLIND_SPOT_PATTERNS[5].keywords[1]
        \o BLIND_SPOT_PATTERNS[5].keywords[3],
    << >> >>

SampleDates == <<
    [year |-> 2024, month |-> 1, day |-> 5],
    [year |-> 2023, month |-> 12, day |-> 31] >>

\* the JournalEntry objects that exist: the constructor rejected the others
SampleJournals(uid) ==
    {JournalEntry(uid, SampleDates[1 + (i % 2)], SampleContents[i], 5) :
        i \in 1..Len(SampleContents)} \ {ValidationError}

JournalLists(uid) ==
    UNION {[1..n -> SampleJournals(uid)] : n \in 0..MaxJournals}

(***************************************************************************)
(* The detection state machine                                             *)
(***************************************************************************)
InitBlind ==
    /\ user_id = DefaultUser
    /\ responses \in ProbeLists(user_id)
    /\ now = 0
    /\ result = calculate_personality_type(responses, user_id)
    /\ earlier = NoResult
    /\ journals \in JournalLists(user_id)
    /\ insights = NoResult
    /\ DriftIdle
    /\ IntakeIdle
    /\ CallIdle
    /\ SessionIdle

\* insights = detect_blind_spots(personality, journals)
Detect ==
    /\ Returned(result)
    /\ insights' = [list |-> detect_blind_spots(result, journals)]
    /\ UNCHANGED <<responses, user_id, now, result, earlier, journals, driftVars, intakeVars, callVars,
                   session>>

NextBlind == Detect

SpecBlind == InitBlind /\ [][NextBlind]_vars

\* journals whose ends and beginnings are the two halves of a keyword
\* ("窮" + "屈" of the J pattern, "イラ" + "イラ" of the P pattern), a journal
\* without any keyword and one with a whole keyword
BoundaryContents == <<
    Filler(2) \o SubSeq(BLIND_SPOT_PATTERNS[2].keywords[3], 1, 1),
    SubSeq(BLIND_SPOT_PATTERNS[2].keywords[3], 2, 2) \o Filler(2),
    SubSeq(BLIND_SPOT_PATTERNS[1].keywords[3], 1, 2),
    Filler(3),
    Filler(1) \o BLIND_SPOT_PATTERNS[4].keywords[3] >>

BoundaryJournals(uid) ==
    {JournalEntry(uid, SampleDates[1], BoundaryContents[i], 5) :
        i \in 1..Len(BoundaryContents)} \ {ValidationError}

BoundaryLists(uid) ==
    UNION {[1..n -> BoundaryJournals(uid)] : n \in 0..MaxJournals}

InitBoundary ==
    /\ user_id = DefaultUser
    /\ responses \in ProbeLists(user_id)
    /\ now = 0
    /\ result = calculate_personality_type(responses, user_id)
    /\ earlier = NoResult
    /\ journals \in BoundaryLists(user_id)
    /\ insights = NoResult
    /\ DriftIdle
    /\ IntakeIdle
    /\ CallIdle
    /\ SessionIdle

NextBoundary == Detect

SpecBoundary == InitBoundary /\ [][NextBoundary]_vars

(***************************************************************************)
(* ui/analysis_ui.py: _render_axis_comparison                              *)
(*                                                                         *)
(* Positions, estimates and differences are fractions of the bar; they are *)
(* carried as integers in units of 1/Scale, so that 0.5 is Scale/2 and     *)
(* strength_percent (in tenths of a percent) / 200 is a whole number of    *)
(* units.                                                                  *)
(***************************************************************************)
Scale == 2000
TenthsPerPercent == 10
\* the literals 0.5, 200 and 0.2 of the function (0.5 and 0.2 in units of
\* 1/Scale)
Half == 1000
PercentDivisor == 200
NotableThreshold == 400

axes == <<
    [code |-> "EI", left |-> "E", right |-> "I"],
    [code |-> "SN", left |-> "S", right |-> "N"],
    [code |-> "TF", left |-> "T", right |-> "F"],
    [code |-> "JP", left |-> "J", right |-> "P"] >>

\* percent / 100: the whole bar instead of half of it
percent_offset_whole(percent) ==
    (percent * Scale) \div (TenthsPerPercent * (PercentDivisor \div 2))

\* ds.strength_percent / 200
percent_offset(percent) ==
    (percent * Scale) \div (TenthsPerPercent * PercentDivisor)

\* the two sides exchanged
position_mirrored(ds, left) ==
    IF ds.dominant_type = left
    THEN Half + percent_offset(ds.strength_percent)
    ELSE Half - percent_offset(ds.strength_percent)

\* the body of the search loop for the axis that was found
position(ds, left) ==
    IF ds.dominant_type = left
    THEN Half - percent_offset(ds.strength_percent)
    ELSE Half + percent_offset(ds.strength_percent)

\* the search never finds the axis: the marker stays in the middle
diag_val_unmatched(dimension_scores, i, code, left) == Half

\* diag_val = 0.5; for ds in personality.dimension_scores: ... break
RECURSIVE diag_val(_, _, _, _)
diag_val(dimension_scores, i, code, left) ==
    IF i > Len(dimension_scores) THEN Half
    ELSE IF dimension_scores[i].dimension = code
    THEN position(dimension_scores[i], left)
    ELSE diag_val(dimension_scores, i + 1, code, left)

\* estimated_scores.get(code, 0)
est_val_zero(estimates, code) ==
    IF code \in DOMAIN estimates THEN estimates[code] ELSE 0

\* estimated_scores.get(code, 0.5)
est_val(estimates, code) ==
    IF code \in DOMAIN estimates THEN estimates[code] ELSE Half

\* abs(diff) >= 0.2
notable_inclusive(diff) == Abs(diff) >= NotableThreshold

\* abs(diff) > 0.2
notable(diff) == Abs(diff) > NotableThreshold

\* direction = right if diff > 0 else left
direction(diff, left, right) == IF diff > 0 THEN right ELSE left

\* the caption is "" when none is written
NoCaption == ""

\* one pass of the loop over the axes: the two markers and the caption
axis_row(personality, estimates, axis) ==
    LET diag == diag_val(personality.dimension_scores, 1, axis.code, axis.left)
        est == est_val(estimates, axis.code)
        diff == est - diag
    IN  [code |-> axis.code, left |-> axis.left, right |-> axis.right,
         diag_val |-> diag, est_val |-> est, diff |-> diff,
         caption |-> IF notable(diff)
                     THEN direction(diff, axis.left, axis.right)
                     ELSE NoCaption]

render_axis_comparison(personality, estimates) ==
    [i \in 1..Len(axes) |-> axis_row(personality, estimates, axes[i])]

(***************************************************************************)
(* Inputs of the comparison                                                *)
(***************************************************************************)
DimensionNames == {Dimension[i] : i \in 1..Len(Dimension)}

\* strengths of stored results: every 10 percent
StrengthStep == 100
StoredStrengths == {k * StrengthStep : k \in 0..(MaxStrength \div StrengthStep)}

\* estimates of the profile: every 0.05 of the bar
EstimateStep == Scale \div 20
EstimateGrid == {k * EstimateStep : k \in 0..(Scale \div EstimateStep)}

\* a DimensionScore as the constructor accepts it: any strength with either
\* pole recorded as dominant
StoredDimensionScore(dimension, second, strength) ==
    DimensionScore(dimension, type_mapping[dimension][1],
                   type_mapping[dimension][2], 0, 0,
                   type_mapping[dimension][IF second THEN 2 ELSE 1],
                   strength)

\* results read back from storage: the axes in second have their second
\* pole dominant, all axes with the same strength
StoredResult(uid, second, strength) ==
    LET dimension_scores ==
            [i \in 1..Len(dimension_order) |->
                StoredDimensionScore(dimension_order[i],
                                     dimension_order[i] \in second, strength)]
    IN  PersonalityResult(
            uid,
            [i \in 1..Len(dimension_scores) |-> dimension_scores[i].dominant_type],
            dimension_scores)

StoredResults(uid) ==
    {StoredResult(uid, second, strength) :
        second \in SUBSET DimensionNames, strength \in StoredStrengths}

\* the estimated_axis_scores of a profile: one value for the axes it covers
EstimateMappings ==
    {[c \in covered |-> v] : covered \in SUBSET DimensionNames, v \in EstimateGrid}

\* answer lists over three questions of the E/I axis (1 and 3 POSITIVE,
\* 2 NEGATIVE), full sheets answered at an extreme up to the end of an axis,
\* and the probe lists
DriftQuestionIds == {1, 2, 3}
DriftScores == {MinScore, MaxScore - 1, MaxScore}
DriftLists(uid) ==
    UNION {[1..n -> {UserResponse(uid, q, sc, 0) :
                        q \in DriftQuestionIds, sc \in DriftScores}] :
              n \in 0..MaxAnswers}
    \cup {FullSheet(uid, MaxScore, MinScore, 3, k) : k \in {8, 15, 23, 30}}
    \cup {FullSheet(uid, MinScore, MaxScore, 3, 30)}
    \cup ProbeLists(uid)

(***************************************************************************)
(* The comparison state machine                                            *)
(***************************************************************************)
\* either a questionnaire waits to be scored or a result was read back
InitDrift ==
    /\ user_id = DefaultUser
    /\ now = 0
    /\ \/ /\ responses \in DriftLists(user_id)
          /\ result = NoResult
       \/ /\ responses = << >>
          /\ result \in StoredResults(user_id)
    /\ earlier = NoResult
    /\ journals = << >>
    /\ insights = NoResult
    /\ estimated_scores \in EstimateMappings
    /\ comparison = NoResult
    /\ IntakeIdle
    /\ CallIdle
    /\ SessionIdle

\* _render_axis_comparison(personality, estimated_scores); what it drew is
\* kept with the arguments it was called with
Compare ==
    /\ Returned(result)
    /\ comparison' = [personality |-> result,
                      estimates |-> estimated_scores,
                      rows |-> render_axis_comparison(result, estimated_scores)]
    /\ UNCHANGED <<responses, user_id, now, result, earlier, journals,
                   insights, estimated_scores, intakeVars, callVars,
                   session>>

NextDrift == Diagnose \/ Compare

SpecDrift == InitDrift /\ [][NextDrift]_vars

(***************************************************************************)
(* The position of scored answer lists: questionnaires, short lists and    *)
(* lists in which one question is answered very many times                 *)
(***************************************************************************)
\* the number of answers "3" before the one answer that tips the balance
LongRun == 1000

\* question 1 answered 3 LongRun times and then once with sc
LongList(uid, sc) ==
    [i \in 1..(LongRun + 1) |->
        UserResponse(uid, 1, IF i <= LongRun THEN 3 ELSE sc, 0)]

PositionLists(uid) ==
    FullSheets(uid) \cup FreeLists(uid)
        \cup {LongList(uid, sc) : sc \in {2, 3, 4}}

\* a profile that estimates every axis in the middle
MiddleEstimates == [c \in DimensionNames |-> Half]

InitPosition ==
    /\ user_id = DefaultUser
    /\ responses \in PositionLists(user_id)
    /\ now = 0
    /\ result = NoResult
    /\ earlier = NoResult
    /\ journals = << >>
    /\ insights = NoResult
    /\ estimated_scores = MiddleEstimates
    /\ comparison = NoResult
    /\ IntakeIdle
    /\ CallIdle
    /\ SessionIdle

NextPosition == Diagnose \/ Compare

SpecPosition == InitPosition /\ [][NextPosition]_vars

(***************************************************************************)
(* The construction of the answers (ui/diagnostic_ui.py: submit_diagnostic *)
(* and any other caller): a UserResponse is built for each answer and only *)
(* the objects that were built reach calculate_personality_type.           *)
(***************************************************************************)
\* question ids offered: a POSITIVE and a NEGATIVE question, and an id that
\* is not in the catalog
IntakeQuestionIds == {1, 2, 31}

InitIntake ==
    /\ user_id = DefaultUser
    /\ responses = << >>
    /\ now = 0
    /\ result = NoResult
    /\ earlier = NoResult
    /\ journals = << >>
    /\ insights = NoResult
    /\ DriftIdle
    /\ IntakeIdle
    /\ CallIdle
    /\ SessionIdle

\* responses.append(UserResponse(user_id=..., question_id=q, score=sc)):
\* the exception of the constructor leaves the list as it was
Offer(q, sc) ==
    /\ Len(responses) < MaxAnswers
    /\ offered' = [question_id |-> q, score |-> sc]
    /\ outcome' = UserResponse(user_id, q, sc, now)
    /\ responses' = IF outcome' = ValidationError
                    THEN responses
                    ELSE Append(responses, outcome')
    /\ UNCHANGED <<user_id, now, result, earlier, journals, insights, driftVars,
                   callVars,
                   session>>

NextIntake ==
    \/ \E q \in IntakeQuestionIds, sc \in OfferedScores : Offer(q, sc)
    \/ Diagnose

SpecIntake == InitIntake /\ [][NextIntake]_vars

(***************************************************************************)
(* Invocations side by side.  Each caller runs one invocation of           *)
(* calculate_personality_type or of detect_blind_spots, one loop pass at a *)
(* time; the passes of the callers interleave freely and the clock moves.  *)
(* What an invocation keeps between its passes are the local variables of  *)
(* its own frame.                                                          *)
(***************************************************************************)
Callers == 1..2

\* all invocations use the frame of the first caller (module-level
\* accumulators)
frame_of_shared(c) == 1

\* the frame holding the local variables of caller c's invocation
frame_of(c) == c

\* the local variables at the start of a call: first_score, second_score
\* = 0.0; dimension_scores = []; insights = []; all_content
NewFrame(all_content) ==
    [axis |-> 1, k |-> 1, scores |-> <<0, 0>>, dimension_scores |-> << >>,
     pattern |-> 1, all_content |-> all_content, insights |-> << >>]

\* one pass of the loop over the patterns: the insight appended, if any
pattern_pass(pattern, personality, js, all_content) ==
    LET matched == matched_keywords(pattern.keywords, all_content)
    IN  IF ~pattern_applies(pattern.type, personality.personality_type)
        THEN << >>
        ELSE IF matched # << >>
        THEN <<BlindSpotInsight(
                   <<ord[pattern.type]>> \o category_suffix,
                   pattern.insight,
                   evidence_cap(evidence_loop(js, 1, matched)),
                   pattern.recommendation,
                   severity_of(matched))>>
        ELSE << >>

\* the arguments of the invocations
CallLists(uid) ==
    {<< >>,
     <<UserResponse(uid, 1, MaxScore, 0)>>,
     <<UserResponse(uid, 2, 4, 0), UserResponse(uid, 1, 2, 0),
       UserResponse(uid, 31, 3, 0)>>}
    \cup {<<UserResponse(uid, 1, x, 0), UserResponse(uid, 9, x, 0),
            UserResponse(uid, 16, x, 0), UserResponse(uid, 24, x, 0)>> :
             x \in {MinScore, MaxScore}}

CallPersonalities(uid) ==
    {calculate_personality_type(
         <<UserResponse(uid, 1, x, 0), UserResponse(uid, 9, x, 0),
           UserResponse(uid, 16, x, 0), UserResponse(uid, 24, x, 0)>>, uid) :
        x \in {MinScore, MaxScore}}

CallJournals(uid) ==
    {<< >>,
     <<JournalEntry(uid, SampleDates[1], AllKeywordsText, 5)>>,
     <<JournalEntry(uid, SampleDates[2], SampleContents[6], 5),
       JournalEntry(uid, SampleDates[1], SampleContents[2], 5)>>}

DiagnoseCalls ==
    {[kind |-> "diagnose", uid |-> uid, responses |-> rs,
      personality |-> NoResult, journals |-> << >>,
      pc |-> "ready", overlapped |-> FALSE, ret |-> NoResult] :
        uid \in {DefaultUser}, rs \in CallLists(DefaultUser)}

DetectCalls ==
    {[kind |-> "detect", uid |-> uid, responses |-> << >>,
      personality |-> p, journals |-> js,
      pc |-> "ready", overlapped |-> FALSE, ret |-> NoResult] :
        uid \in {DefaultUser}, p \in CallPersonalities(DefaultUser),
        js \in CallJournals(DefaultUser)}

InitInterleave ==
    /\ user_id = DefaultUser
    /\ responses = << >>
    /\ now = 0
    /\ result = NoResult
    /\ earlier = NoResult
    /\ journals = << >>
    /\ insights = NoResult
    /\ DriftIdle
    /\ IntakeIdle
    /\ calls \in [Callers -> DiagnoseCalls \cup DetectCalls]
    /\ frames = [f \in Callers |-> NewFrame(<< >>)]
    /\ SessionIdle

\* the call is entered: its locals are initialised; detect_blind_spots
\* returns [] at once for an empty journal list
Begin(c) ==
    LET call == calls[c]
        other == \E d \in Callers \ {c} : calls[d].pc = "running"
    IN  /\ call.pc = "ready"
        /\ IF call.kind = "detect" /\ call.journals = << >>
           THEN /\ calls' = [calls EXCEPT ![c].pc = "done",
                                          ![c].overlapped = other,
                                          ![c].ret = [list |-> << >>]]
                /\ UNCHANGED frames
           ELSE /\ calls' = [calls EXCEPT ![c].pc = "running",
                                          ![c].overlapped = other]
                /\ frames' = [frames EXCEPT ![frame_of(c)] =
                                 NewFrame(IF call.kind = "detect"
                                          THEN join_contents(call.journals, 1)
                                          ELSE << >>)]
        /\ UNCHANGED <<responses, user_id, now, result, earlier, journals,
                       insights, driftVars, intakeVars,
                   session>>

\* one pass of "for response in dimension_responses"
StepAnswer(c) ==
    LET call == calls[c]
        frame == frames[frame_of(c)]
    IN  /\ call.kind = "diagnose" /\ call.pc = "running"
        /\ frame.axis <= Len(dimension_order)
        /\ LET rs == dimension_responses(call.responses, dimension_order[frame.axis])
           IN  /\ frame.k <= Len(rs)
               /\ frames' = [frames EXCEPT ![frame_of(c)] =
                                [frame EXCEPT !.scores = accumulate(frame.scores, rs[frame.k]),
                                              !.k = frame.k + 1]]
        /\ UNCHANGED <<responses, user_id, now, result, earlier, journals,
                       insights, driftVars, intakeVars, calls,
                   session>>

\* the end of calculate_dimension_score for one axis: its DimensionScore is
\* appended to dimension_scores
EndAxis(c) ==
    LET call == calls[c]
        frame == frames[frame_of(c)]
    IN  /\ call.kind = "diagnose" /\ call.pc = "running"
        /\ frame.axis <= Len(dimension_order)
        /\ LET dimension == dimension_order[frame.axis]
               first_type == type_mapping[dimension][1]
               second_type == type_mapping[dimension][2]
           IN  /\ frame.k > Len(dimension_responses(call.responses, dimension))
               /\ frames' = [frames EXCEPT ![frame_of(c)] =
                                [frame EXCEPT
                                    !.dimension_scores = Append(@,
                                        DimensionScore(dimension, first_type, second_type,
                                            frame.scores[1], frame.scores[2],
                                            dominant_type(first_type, second_type,
                                                          frame.scores[1], frame.scores[2]),
                                            strength_percent(frame.scores[1], frame.scores[2]))),
                                    !.axis = frame.axis + 1,
                                    !.k = 1,
                                    !.scores = <<0, 0>>]]
        /\ UNCHANGED <<responses, user_id, now, result, earlier, journals,
                       insights, driftVars, intakeVars, calls,
                   session>>

\* return PersonalityResult(...)
ReturnType(c) ==
    LET call == calls[c]
        frame == frames[frame_of(c)]
    IN  /\ call.kind = "diagnose" /\ call.pc = "running"
        /\ frame.axis > Len(dimension_order)
        /\ calls' = [calls EXCEPT
                        ![c].pc = "done",
                        ![c].ret = PersonalityResult(
                                       call.uid,
                                       [i \in 1..Len(frame.dimension_scores) |->
                                           frame.dimension_scores[i].dominant_type],
                                       frame.dimension_scores)]
        /\ UNCHANGED <<responses, user_id, now, result, earlier, journals,
                       insights, driftVars, intakeVars, frames,
                   session>>

\* one pass of "for pattern_id, pattern in BLIND_SPOT_PATTERNS.items()"
StepPattern(c) ==
    LET call == calls[c]
        frame == frames[frame_of(c)]
    IN  /\ call.kind = "detect" /\ call.pc = "running"
        /\ frame.pattern <= Len(BLIND_SPOT_PATTERNS)
        /\ frames' = [frames EXCEPT ![frame_of(c)] =
                         [frame EXCEPT
                             !.insights = @ \o pattern_pass(
                                              BLIND_SPOT_PATTERNS[frame.pattern],
                                              call.personality, call.journals,
                                              frame.all_content),
                             !.pattern = frame.pattern + 1]]
        /\ UNCHANGED <<responses, user_id, now, result, earlier, journals,
                       insights, driftVars, intakeVars, calls,
                   session>>

\* return insights
ReturnInsights(c) ==
    LET call == calls[c]
        frame == frames[frame_of(c)]
    IN  /\ call.kind = "detect" /\ call.pc = "running"
        /\ frame.pattern > Len(BLIND_SPOT_PATTERNS)
        /\ calls' = [calls EXCEPT ![c].pc = "done",
                                  ![c].ret = [list |-> frame.insights]]
        /\ UNCHANGED <<responses, user_id, now, result, earlier, journals,
                       insights, driftVars, intakeVars, frames,
                   session>>

NextInterleave ==
    \/ Tick
    \/ \E c \in Callers :
           \/ Begin(c)
           \/ StepAnswer(c)
           \/ EndAxis(c)
           \/ ReturnType(c)
           \/ StepPattern(c)
           \/ ReturnInsights(c)

SpecInterleave == InitInterleave /\ [][NextInterleave]_vars

(***************************************************************************)
(* ui/diagnostic_ui.py: the questionnaire session.  st.session_state holds *)
(* diagnostic_started, current_page, responses (a dict, kept here as the   *)
(* list of its items in insertion order), diagnostic_complete;             *)
(* personality_result is the variable result, None being NoResult.         *)
(***************************************************************************)
QUESTIONS_PER_PAGE == 5

total_pages == (get_total_questions + QUESTIONS_PER_PAGE - 1) \div QUESTIONS_PER_PAGE

\* init_diagnostic_state and reset_diagnostic
FreshSession ==
    [diagnostic_started |-> FALSE, current_page |-> 0, responses |-> << >>,
     diagnostic_complete |-> FALSE]

\* DIAGNOSTIC_QUESTIONS[start_idx:end_idx], as question ids
page_questions(current_page) ==
    LET start_idx == current_page * QUESTIONS_PER_PAGE
        end_idx == IF start_idx + QUESTIONS_PER_PAGE < get_total_questions
                   THEN start_idx + QUESTIONS_PER_PAGE
                   ELSE get_total_questions
    IN  {DIAGNOSTIC_QUESTIONS[i].id : i \in (start_idx + 1)..end_idx}

\* the keys of the dict
answered(items) == {items[i].question_id : i \in 1..Len(items)}

\* st.session_state.responses[question.id] = score: a new key goes to the
\* end, a key already there keeps its place
put(items, q, sc) ==
    IF q \in answered(items)
    THEN [i \in 1..Len(items) |->
             IF items[i].question_id = q
             THEN [question_id |-> q, score |-> sc] ELSE items[i]]
    ELSE Append(items, [question_id |-> q, score |-> sc])

\* the answers of one page are enough
all_answered_page(items) == Len(items) >= QUESTIONS_PER_PAGE

\* all_answered = len(st.session_state.responses) == total_questions
all_answered(items) == Len(items) = get_total_questions

\* the radio offers 1..5; the last question of a page is answered 1 or 5
\* here, the others 3
SessionScores(q) ==
    IF q % QUESTIONS_PER_PAGE = 0 THEN {MinScore, MaxScore} ELSE {3}

\* questions are answered for the first time in catalog order; an answered
\* question of the page on screen may be answered again
Answerable(items, q) ==
    \/ q \in answered(items)
    \/ \A lower \in 1..(q - 1) : lower \in answered(items)

InitSession ==
    /\ user_id = DefaultUser
    /\ responses = << >>
    /\ now = 0
    /\ result = NoResult
    /\ earlier = NoResult
    /\ journals = << >>
    /\ insights = NoResult
    /\ DriftIdle
    /\ IntakeIdle
    /\ CallIdle
    /\ session = FreshSession

OnQuestionsPage ==
    /\ ~session.diagnostic_complete
    /\ session.diagnostic_started

\* the start button of render_start_page
StartDiagnostic ==
    /\ ~session.diagnostic_complete
    /\ ~session.diagnostic_started
    /\ session' = [session EXCEPT !.diagnostic_started = TRUE]
    /\ UNCHANGED <<responses, user_id, now, result, earlier, journals, insights,
                   driftVars, intakeVars, callVars>>

\* a radio of the page on screen is set
AnswerQuestion(q, sc) ==
    /\ OnQuestionsPage
    /\ q \in page_questions(session.current_page)
    /\ Answerable(session.responses, q)
    /\ session' = [session EXCEPT !.responses = put(@, q, sc)]
    /\ UNCHANGED <<responses, user_id, now, result, earlier, journals, insights,
                   driftVars, intakeVars, callVars>>

PreviousPage ==
    /\ OnQuestionsPage
    /\ session.current_page > 0
    /\ session' = [session EXCEPT !.current_page = @ - 1]
    /\ UNCHANGED <<responses, user_id, now, result, earlier, journals, insights,
                   driftVars, intakeVars, callVars>>

NextPage ==
    /\ OnQuestionsPage
    /\ session.current_page < total_pages - 1
    /\ session' = [session EXCEPT !.current_page = @ + 1]
    /\ UNCHANGED <<responses, user_id, now, result, earlier, journals, insights,
                   driftVars, intakeVars, callVars>>

\* the button of the last page, disabled unless all_answered, and
\* submit_diagnostic: the list of UserResponse objects is built from the
\* items of the dict and scored
SubmitDiagnostic ==
    /\ OnQuestionsPage
    /\ ~(session.current_page < total_pages - 1)
    /\ all_answered(session.responses)
    /\ LET built == [i \in 1..Len(session.responses) |->
                        UserResponse(user_id, session.responses[i].question_id,
                                     session.responses[i].score, now)]
       IN  /\ \A i \in 1..Len(built) : built[i] # ValidationError
           /\ responses' = built
           /\ result' = calculate_personality_type(built, user_id)
    /\ earlier' = result
    /\ session' = [session EXCEPT !.diagnostic_complete = TRUE]
    /\ UNCHANGED <<user_id, now, journals, insights, driftVars, intakeVars, callVars>>

\* the button of render_result_page: reset_diagnostic
ResetDiagnostic ==
    /\ session.diagnostic_complete
    /\ session' = FreshSession
    /\ result' = NoResult
    /\ UNCHANGED <<responses, user_id, now, earlier, journals, insights,
                   driftVars, intakeVars, callVars>>

NextSession ==
    \/ StartDiagnostic
    \/ \E q \in 1..get_total_questions : \E sc \in SessionScores(q) : AnswerQuestion(q, sc)
    \/ PreviousPage
    \/ NextPage
    \/ SubmitDiagnostic
    \/ ResetDiagnostic

SpecSession == InitSession /\ [][NextSession]_vars

(***************************************************************************)
(* Vocabulary of the properties.  The expected values are written out      *)
(* here independently of the definitions above.                            *)
(***************************************************************************)
Axes == 1..4
AxisCode == <<"EI", "SN", "TF", "JP">>
FirstPole == <<"E", "S", "T", "J">>
SecondPole == <<"I", "N", "F", "P">>
\* catalog ids of each axis (data/questions.py: 8, 7, 8 and 7 questions)
AxisIds == <<1..8, 9..15, 16..23, 24..30>>

\* positions of the list holding an answer to a question of axis i
AnswersOn(rs, i) == {k \in 1..Len(rs) : rs[k].question_id \in AxisIds[i]}
\* questions of axis i that have an answer in the list
AnsweredQuestions(rs, i) == {rs[k].question_id : k \in AnswersOn(rs, i)}
\* every question of axis i is answered exactly once
AnsweredOnce(rs, i) ==
    /\ AnsweredQuestions(rs, i) = AxisIds[i]
    /\ Cardinality(AnswersOn(rs, i)) = Cardinality(AxisIds[i])

Total(ds) == ds.first_score + ds.second_score
Gap(ds) == Abs(ds.first_score - ds.second_score)

(***************************************************************************)
(* C1  Conservation law                                                    *)
(***************************************************************************)
\* C1 as stated: on every axis first_score + second_score is 4 times the
\* number of questions of the axis that are answered in the list.
C1_PerAnsweredQuestion ==
    Returned(result) =>
        \A i \in Axes :
            Total(result.dimension_scores[i])
                = 4 * Cardinality(AnsweredQuestions(responses, i))

\* C1 amended: on every axis first_score + second_score is 4 times the
\* number of ANSWERS in the list that refer to a catalog question of the
\* axis (a question answered twice counts twice); an axis whose questions
\* are each answered exactly once sums to 32 (EI, TF) or 28 (SN, JP).
C1_Conservation ==
    Returned(result) =>
        \A i \in Axes :
            /\ Total(result.dimension_scores[i])
                   = 4 * Cardinality(AnswersOn(responses, i))
            /\ AnsweredOnce(responses, i) =>
                   Total(result.dimension_scores[i]) = <<32, 28, 32, 28>>[i]

C1_Witness ==
    /\ Returned(result)
    /\ \A i \in Axes : AnsweredOnce(responses, i)
    /\ Total(result.dimension_scores[1]) = 32
    /\ Total(result.dimension_scores[2]) = 28
    /\ result.dimension_scores[1].first_score = 17

C3_ExactQuotient ==
    Returned(result) =>
        \A i \in Axes :
            LET ds == result.dimension_scores[i]
            IN  IF Total(ds) # 0
                THEN ds.strength_percent * Total(ds) = 1000 * Gap(ds)
                ELSE ds.strength_percent = 0

\* C3 amended: strength_percent equals |first - second| / (first + second)
\* * 100 ROUNDED TO ONE DECIMAL (nearest tenth, an exact half to the even
\* tenth) when the totals sum to a nonzero value, and 0 otherwise.
C3_RoundedQuotient ==
    Returned(result) =>
        \A i \in Axes :
            LET ds == result.dimension_scores[i]
                err == ds.strength_percent * Total(ds) - 1000 * Gap(ds)
            IN  IF Total(ds) # 0
                THEN /\ 2 * Abs(err) <= Total(ds)
                     /\ 2 * Abs(err) = Total(ds) => ds.strength_percent % 2 = 0
                ELSE ds.strength_percent = 0

\* an axis whose quotient is not a multiple of 0.1 (7 answers, 4/28 = 14.28..)
C3_Witness ==
    /\ Returned(result)
    /\ Total(result.dimension_scores[2]) = 28
    /\ Gap(result.dimension_scores[2]) = 4
    /\ result.dimension_scores[2].strength_percent = 143

(***************************************************************************)
(* C4  Strength boundedness                                                *)
(***************************************************************************)
\* C4: for every answer list with scores in 1..5 and every axis, the
\* DimensionScore has 0 <= strength_percent <= 100 (0..1000 tenths), so its
\* construction, and with it the whole call, never fails validation.
C4_StrengthBounded ==
    result # NoResult =>
        /\ result # ValidationError
        /\ \A i \in Axes :
               /\ result.dimension_scores[i].strength_percent >= 0
               /\ result.dimension_scores[i].strength_percent <= 1000

\* both ends of the range are produced: one axis at 100.0, another at 0.0
C4_Witness ==
    /\ Returned(result)
    /\ \E i, j \in Axes :
           /\ result.dimension_scores[i].strength_percent = 1000
           /\ result.dimension_scores[j].strength_percent = 0
           /\ Total(result.dimension_scores[j]) > 0

(***************************************************************************)
(* C5  Dominance and tie rule                                              *)
(***************************************************************************)
\* C5: on every axis dominant_type is the first pole (E, S, T, J) exactly
\* when first_score >= second_score and the second pole (I, N, F, P)
\* otherwise; equal totals resolve to the first pole.
C5_Dominance ==
    Returned(result) =>
        \A i \in Axes :
            LET ds == result.dimension_scores[i]
            IN  /\ ds.first_type = FirstPole[i]
                /\ ds.second_type = SecondPole[i]
                /\ ds.first_score >= ds.second_score
                       => ds.dominant_type = FirstPole[i]
                /\ ds.first_score < ds.second_score
                       => ds.dominant_type = SecondPole[i]

\* a genuine tie (answers present, totals equal) next to a second-pole axis
C5_Witness ==
    /\ Returned(result)
    /\ \E i, j \in Axes :
           /\ result.dimension_scores[i].first_score > 0
           /\ result.dimension_scores[i].first_score
                  = result.dimension_scores[i].second_score
           /\ result.dimension_scores[i].dominant_type = FirstPole[i]
           /\ result.dimension_scores[j].first_score
                  < result.dimension_scores[j].second_score
           /\ result.dimension_scores[j].dominant_type = SecondPole[j]

(***************************************************************************)
(* C6  Type-letter membership                                              *)
(***************************************************************************)
\* C6: the type code has exactly four letters; its i-th letter is one of
\* the two poles of the i-th axis in the order EI, SN, TF, JP and equals
\* the dominant_type of the i-th DimensionScore of dimension_scores.
C6_TypeLetters ==
    Returned(result) =>
        /\ Len(result.personality_type) = 4
        /\ Len(result.dimension_scores) = 4
        /\ \A i \in Axes :
               /\ result.personality_type[i] \in {FirstPole[i], SecondPole[i]}
               /\ result.dimension_scores[i].dimension = AxisCode[i]
               /\ result.personality_type[i]
                      = result.dimension_scores[i].dominant_type

C6_Witness ==
    /\ Returned(result)
    /\ result.personality_type = <<"I", "S", "F", "J">>

(***************************************************************************)
(* C7  Empty-input degradation                                             *)
(***************************************************************************)
\* C7: with an empty answer list every axis has both totals 0, strength 0
\* and the first pole dominant, and the call returns type ESTJ instead of
\* raising; an axis without answers in a non-empty list likewise has
\* totals 0, strength 0 and its first pole dominant.
C7_EmptyInput ==
    result # NoResult =>
        /\ responses = << >> =>
               /\ result # ValidationError
               /\ result.personality_type = <<"E", "S", "T", "J">>
        /\ \A i \in Axes :
               AnswersOn(responses, i) = {} =>
                   /\ result # ValidationError
                   /\ result.dimension_scores[i].first_score = 0
                   /\ result.dimension_scores[i].second_score = 0
                   /\ result.dimension_scores[i].strength_percent = 0
                   /\ result.dimension_scores[i].dominant_type = FirstPole[i]
                   /\ result.personality_type[i] = FirstPole[i]

C7_Witness ==
    /\ responses = << >>
    /\ Returned(result)
    /\ result.personality_type = <<"E", "S", "T", "J">>
    /\ \A i \in Axes : Total(result.dimension_scores[i]) = 0

(***************************************************************************)
(* C8  Unknown question references are ignored                             *)
(***************************************************************************)
\* answers that do not belong to axis i: unknown ids and other axes' ids
Foreign(r, i) == r.question_id \notin AxisIds[i]
RemoveAt(rs, k) == SubSeq(rs, 1, k - 1) \o SubSeq(rs, k + 1, Len(rs))
WithoutForeign(rs, i) == SelectSeq(rs, LAMBDA r : ~Foreign(r, i))

\* C8: the DimensionScore of an axis is the same for two answer lists that
\* differ by one answer, or by all answers, whose question_id is not in the
\* catalog or belongs to another axis (the longer list is the shorter one
\* with the answer added, the shorter one the longer with it removed); no
\* error is raised.
C8_ForeignIgnored ==
    result # NoResult =>
        /\ result # ValidationError
        /\ \A i \in Axes :
               LET ds == result.dimension_scores[i]
               IN  /\ calculate_dimension_score(WithoutForeign(responses, i), AxisCode[i]) = ds
                   /\ \A k \in 1..Len(responses) :
                          Foreign(responses[k], i) =>
                              calculate_dimension_score(RemoveAt(responses, k), AxisCode[i]) = ds

\* a list holding an unknown id, another axis's answer and an EI answer
C8_Witness ==
    /\ Returned(result)
    /\ \E k \in 1..Len(responses) : responses[k].question_id \notin 1..30
    /\ Total(result.dimension_scores[1]) = 4
    /\ result.dimension_scores[1].dominant_type = "I"

(***************************************************************************)
(* Vocabulary of the detector's properties                                 *)
(***************************************************************************)
Letters(personality_type) ==
    {personality_type[i] : i \in 1..Len(personality_type)}

PatternIndex == 1..6
\* pole letter of each configured pattern, in table order
PatternPole == <<"P", "J", "T", "F", "E", "I">>
\* the category text of an insight for pole letter x
CategoryOf(x) == <<ord[x]>> \o <<12479, 12452, 12503, 12398, 30450, 28857>>

\* every keyword of pattern p occurs in some journal
AllKeywordsPresent(p) ==
    \A k \in 1..Len(BLIND_SPOT_PATTERNS[p].keywords) :
        \E j \in 1..Len(journals) :
            Contains(journals[j].content, BLIND_SPOT_PATTERNS[p].keywords[k])

\* the insights emitted for pattern p
InsightsFor(p) ==
    {k \in 1..Len(insights.list) :
        \/ insights.list[k].category = CategoryOf(PatternPole[p])
        \/ insights.list[k].description = BLIND_SPOT_PATTERNS[p].insight
        \/ insights.list[k].recommendation = BLIND_SPOT_PATTERNS[p].recommendation}

(***************************************************************************)
(* C9  Blind-spot gating                                                   *)
(***************************************************************************)
\* C9: no insight is emitted for a pattern whose pole letter is not one of
\* the letters of the type code, even when all of the pattern's keywords
\* occur in the journals; every emitted insight belongs to a pattern whose
\* pole letter is in the type code.
C9_Gating ==
    Returned(insights) =>
        /\ \A p \in PatternIndex :
               PatternPole[p] \notin Letters(result.personality_type)
                   => InsightsFor(p) = {}
        /\ \A k \in 1..Len(insights.list) :
               \E p \in PatternIndex :
                   /\ PatternPole[p] \in Letters(result.personality_type)
                   /\ k \in InsightsFor(p)

\* type ENFP, every keyword of every pattern present: only P, F and E fire
C9_Witness ==
    /\ Returned(insights)
    /\ result.personality_type = <<"E", "N", "F", "P">>
    /\ \A p \in PatternIndex : AllKeywordsPresent(p)
    /\ Len(insights.list) = 3
    /\ InsightsFor(2) = {} /\ InsightsFor(3) = {} /\ InsightsFor(6) = {}
    /\ InsightsFor(1) = {1} /\ InsightsFor(4) = {2} /\ InsightsFor(5) = {3}

(***************************************************************************)
(* C10  Evidence cap                                                       *)
(***************************************************************************)
\* the 13 characters "[YYYY-MM-DD] " every evidence line starts with
HasDatePrefix(line) ==
    /\ Len(line) >= 13
    /\ line[1] = 91 /\ line[6] = 45 /\ line[9] = 45
    /\ line[12] = 93 /\ line[13] = 32
    /\ \A i \in {2, 3, 4, 5, 7, 8, 10, 11} : line[i] \in 48..57

\* the excerpt of an evidence line: what follows the date prefix
ExcerptIn(line) == SubSeq(line, 14, Len(line))

\* journals holding some keyword of pattern p
JournalsMatching(p) ==
    {j \in 1..Len(journals) :
        \E k \in 1..Len(BLIND_SPOT_PATTERNS[p].keywords) :
            Contains(journals[j].content, BLIND_SPOT_PATTERNS[p].keywords[k])}

\* C10: each insight carries at most 3 evidence lines; each line is the
\* entry's date prefix followed by an excerpt of at most 53 characters, 50
\* characters of content plus the ellipsis marker "..." (a line as a whole
\* therefore has at most 13 + 53 = 66 characters).
C10_EvidenceCap ==
    Returned(insights) =>
        \A k \in 1..Len(insights.list) :
            /\ Len(insights.list[k].evidence) <= 3
            /\ \A e \in 1..Len(insights.list[k].evidence) :
                   LET line == insights.list[k].evidence[e]
                       excerpt == ExcerptIn(line)
                   IN  /\ HasDatePrefix(line)
                       /\ Len(excerpt) <= 53
                       /\ Len(excerpt) > 50 =>
                              SubSeq(excerpt, 51, 53) = <<46, 46, 46>>

\* four journals match the P pattern and three lines are kept, one of them
\* an excerpt of the full 53 characters and one of exactly 50
C10_Witness ==
    /\ Returned(insights)
    /\ Len(insights.list) > 0
    /\ "P" \in Letters(result.personality_type)
    /\ Cardinality(JournalsMatching(1)) = 4
    /\ Len(insights.list[1].evidence) = 3
    /\ Len(ExcerptIn(insights.list[1].evidence[1])) = 53
    /\ Len(ExcerptIn(insights.list[1].evidence[2])) = 50

(***************************************************************************)
(* C11  Severity threshold                                                 *)
(***************************************************************************)
\* the text the keywords are searched in: the contents joined by spaces
Corpus == join_contents(journals, 1)

\* keywords of pattern p (by position) that occur in the corpus
KeywordsInCorpus(p) ==
    {k \in 1..Len(BLIND_SPOT_PATTERNS[p].keywords) :
        Contains(Corpus, BLIND_SPOT_PATTERNS[p].keywords[k])}

\* C11: an insight's severity is "low" when exactly one keyword of its
\* pattern occurs in the journal corpus and "medium" when two or more
\* distinct keywords of the pattern occur; no insight has another severity
\* (never "high").
C11_Severity ==
    Returned(insights) =>
        \A k \in 1..Len(insights.list) :
            /\ insights.list[k].severity \in {"low", "medium"}
            /\ \A p \in PatternIndex :
                   k \in InsightsFor(p) =>
                       /\ Cardinality(KeywordsInCorpus(p)) = 1
                              <=> insights.list[k].severity = "low"
                       /\ Cardinality(KeywordsInCorpus(p)) >= 2
                              <=> insights.list[k].severity = "medium"

\* type ESTJ: exactly two E keywords (medium) next to a single T keyword (low)
C11_Witness ==
    /\ Returned(insights)
    /\ Len(insights.list) = 2
    /\ Cardinality(KeywordsInCorpus(3)) = 1
    /\ Cardinality(KeywordsInCorpus(5)) = 2
    /\ InsightsFor(3) = {1} /\ insights.list[1].severity = "low"
    /\ InsightsFor(5) = {2} /\ insights.list[2].severity = "medium"

(***************************************************************************)
(* C12  Insight ordering and uniqueness                                    *)
(***************************************************************************)
Reverse(seq) == [i \in 1..Len(seq) |-> seq[Len(seq) + 1 - i]]
\* the categories of a list of insights, in its order
Categories(list) == [k \in 1..Len(list) |-> list[k].category]
\* the categories of the patterns in P that are in the table, in table order
CategoriesInOrder(P) ==
    LET chosen == SelectSeq(<<1, 2, 3, 4, 5, 6>>, LAMBDA p : p \in P)
    IN  [k \in 1..Len(chosen) |-> CategoryOf(PatternPole[chosen[k]])]

\* C12: the returned list holds at most one insight per configured
\* pattern, in the order of the pattern table (P, J, T, F, E, I); the same
\* patterns in the same order come out when the journal entries or the
\* letters of the type code are given in another order.
C12_Ordering ==
    Returned(insights) =>
        /\ \A p \in PatternIndex : Cardinality(InsightsFor(p)) <= 1
        /\ Categories(insights.list)
               = CategoriesInOrder({p \in PatternIndex : InsightsFor(p) # {}})
        /\ Categories(detect_blind_spots(result, Reverse(journals)))
               = Categories(insights.list)
        /\ Categories(detect_blind_spots(
                   [result EXCEPT !.personality_type = Reverse(@)], journals))
               = Categories(insights.list)

\* type ISTJ, the I keyword met before the T and the J keyword: J, T, I
C12_Witness ==
    /\ Returned(insights)
    /\ result.personality_type = <<"I", "S", "T", "J">>
    /\ Len(journals) = 3
    /\ Contains(journals[1].content, BLIND_SPOT_PATTERNS[6].keywords[3])
    /\ Contains(journals[3].content, BLIND_SPOT_PATTERNS[2].keywords[3])
    /\ Categories(insights.list) = <<CategoryOf("J"), CategoryOf("T"), CategoryOf("I")>>

(***************************************************************************)
(* C13  Empty journal set                                                  *)
(***************************************************************************)
\* C13: for every personality type, detect_blind_spots called with an empty
\* journal list returns an empty insight list and raises no error.
C13_EmptyJournals ==
    (insights # NoResult /\ journals = << >>) =>
        /\ insights # ValidationError
        /\ Len(insights.list) = 0

C13_Witness ==
    /\ journals = << >>
    /\ Returned(insights)
    /\ Len(insights.list) = 0
    /\ result.personality_type = <<"I", "N", "F", "P">>

(***************************************************************************)
(* C14 .. C18  The comparison of the diagnosed position with the estimate  *)
(***************************************************************************)
Compared == comparison # NoResult
\* the DimensionScore of axis a in a result
ScoreOn(personality, a) ==
    personality.dimension_scores[
        CHOOSE i \in 1..Len(personality.dimension_scores) :
            personality.dimension_scores[i].dimension = AxisCode[a]]

\* C14: for every DimensionScore (strength in 0..100, either pole dominant)
\* the position drawn for its axis lies in [0, 1], and a strength of 0 is
\* drawn at exactly 0.5 whichever pole is recorded as dominant.
C14_PositionBounded ==
    Compared =>
        \A a \in Axes :
            LET row == comparison.rows[a]
                ds == ScoreOn(comparison.personality, a)
            IN  /\ row.code = AxisCode[a]
                /\ row.diag_val >= 0
                /\ row.diag_val <= Scale
                /\ ds.strength_percent = 0 => 2 * row.diag_val = Scale

\* strength 0 with the second pole recorded as dominant, and in the same
\* result an axis with the first pole
C14_Witness ==
    /\ Compared
    /\ ScoreOn(comparison.personality, 1).strength_percent = 0
    /\ ScoreOn(comparison.personality, 1).dominant_type = "I"
    /\ ScoreOn(comparison.personality, 2).dominant_type = "S"
    /\ 2 * comparison.rows[1].diag_val = Scale
    /\ 2 * comparison.rows[2].diag_val = Scale

\* C15: the position of an axis is 0.5 - strength/200 when the dominant
\* pole is the axis's first pole (E, S, T, J) and 0.5 + strength/200
\* otherwise (strength in percent; here in tenths of a percent, whence
\* 2000), so that 0.0 is the first pole's extreme and 1.0 the second's.
C15_PositionMapping ==
    Compared =>
        \A a \in Axes :
            LET row == comparison.rows[a]
                ds == ScoreOn(comparison.personality, a)
            IN  IF ds.dominant_type = FirstPole[a]
                THEN 2000 * row.diag_val = Scale * (1000 - ds.strength_percent)
                ELSE 2000 * row.diag_val = Scale * (1000 + ds.strength_percent)

\* a scored questionnaire: E = 3, I = 5 gives 25.0 percent towards I, drawn
\* at 0.625
C15_Witness ==
    /\ Compared
    /\ ScoreOn(comparison.personality, 1).first_score = 3
    /\ ScoreOn(comparison.personality, 1).second_score = 5
    /\ ScoreOn(comparison.personality, 1).strength_percent = 250
    /\ 8 * comparison.rows[1].diag_val = 5 * Scale
    /\ comparison.rows[2].diag_val * 2 = Scale

WithoutKey(estimates, c) == [k \in (DOMAIN estimates) \ {c} |-> estimates[k]]

\* C17: an axis code absent from the estimate mapping is compared with the
\* estimate 0.5 and raises no error; the comparisons of the other axes are
\* what they are when the key is there.
C17_MissingEstimate ==
    Compared =>
        /\ comparison.rows # ValidationError
        /\ Len(comparison.rows) = 4
        /\ \A a \in Axes :
               AxisCode[a] \notin DOMAIN comparison.estimates
                   => /\ 2 * comparison.rows[a].est_val = Scale
                      /\ comparison.rows[a].diff
                             = Half - comparison.rows[a].diag_val
        /\ \A a \in Axes :
               AxisCode[a] \in DOMAIN comparison.estimates =>
                   LET less == render_axis_comparison(
                                   comparison.personality,
                                   WithoutKey(comparison.estimates, AxisCode[a]))
                   IN  /\ 2 * less[a].est_val = Scale
                       /\ \A b \in Axes \ {a} : less[b] = comparison.rows[b]

\* no estimate for J/P, whose marker is at P's extreme: compared with 0.5,
\* caption J; the E/I axis is compared with its own estimate 0.95
C17_Witness ==
    /\ Compared
    /\ DOMAIN comparison.estimates = {"EI", "SN", "TF"}
    /\ 20 * comparison.estimates["EI"] = 19 * Scale
    /\ 20 * comparison.rows[1].est_val = 19 * Scale
    /\ comparison.rows[4].diag_val = Scale
    /\ 2 * comparison.rows[4].est_val = Scale
    /\ comparison.rows[4].caption = "J"

\* the answer at list position k is the extreme in favour of the first pole
FirstPoleExtreme(rs, k) ==
    rs[k].score = IF get_question_by_id(rs[k].question_id).direction = POSITIVE
                  THEN 5 ELSE 1

\* C18: when every answered question of an axis (there is at least one) is
\* answered at the extreme that favours the first pole (5 on a POSITIVE
\* question, 1 on a NEGATIVE one), the second pole's total is 0, the
\* strength is 100.0, the first pole is dominant and the position drawn is
\* 0.0; two POSITIVE E/I questions answered [5, 5] give E = 8, I = 0.
C18_ExtremeEndToEnd ==
    (Compared /\ comparison.personality
                     = calculate_personality_type(responses, user_id)) =>
        \A a \in Axes :
            LET row == comparison.rows[a]
                ds == ScoreOn(comparison.personality, a)
            IN  /\ (/\ AnswersOn(responses, a) # {}
                    /\ \A k \in AnswersOn(responses, a) :
                           FirstPoleExtreme(responses, k))
                       => /\ ds.second_score = 0
                          /\ ds.first_score = 4 * Cardinality(AnswersOn(responses, a))
                          /\ ds.strength_percent = 1000
                          /\ ds.dominant_type = FirstPole[a]
                          /\ row.diag_val = 0
                /\ (/\ a = 1
                    /\ Len(responses) = 2
                    /\ responses[1].question_id = 1 /\ responses[1].score = 5
                    /\ responses[2].question_id = 3 /\ responses[2].score = 5)
                       => ds.first_score = 8 /\ ds.second_score = 0

\* questions 1 and 3 answered [5, 5], scored and drawn
C18_Witness ==
    /\ Compared
    /\ Len(responses) = 2
    /\ responses[1].question_id = 1 /\ responses[1].score = 5
    /\ responses[2].question_id = 3 /\ responses[2].score = 5
    /\ comparison.personality = result
    /\ ScoreOn(result, 1).first_score = 8
    /\ ScoreOn(result, 1).second_score = 0
    /\ ScoreOn(result, 1).strength_percent = 1000
    /\ comparison.rows[1].diag_val = 0

(***************************************************************************)
(* C19  Boundary rejection                                                 *)
(***************************************************************************)
\* C19: an answer whose score is outside 1..5 is rejected with a validation
\* error when its UserResponse is constructed; whatever is offered, every
\* answer in the list handed to the scoring has a normalized value
\* (score - 1) within 0..4, and each pole's total stays within 0 and four
\* times the number of answers of the axis.
C19_BoundaryRejection ==
    /\ offered # NoResult =>
           /\ (offered.score < 1 \/ offered.score > 5) <=> outcome = ValidationError
           /\ outcome # ValidationError =>
                  /\ outcome.score = offered.score
                  /\ responses[Len(responses)] = outcome
    /\ \A k \in 1..Len(responses) :
           /\ responses[k] # ValidationError
           /\ responses[k].score - 1 \in 0..4
    /\ Returned(result) =>
           \A a \in Axes :
               LET ds == result.dimension_scores[a]
                   most == 4 * Cardinality(AnswersOn(responses, a))
               IN  /\ ds.first_score \in 0..most
                   /\ ds.second_score \in 0..most

\* a 6 was offered after a 5 and rejected; the list scored holds the 5 only
C19_Witness ==
    /\ offered # NoResult
    /\ offered.score = 6
    /\ outcome = ValidationError
    /\ Len(responses) = 1
    /\ responses[1].score = 5
    /\ Returned(result)
    /\ result.dimension_scores[1].first_score = 4
    /\ result.dimension_scores[1].second_score = 0

(***************************************************************************)
(* C20  Statelessness under interleaving                                   *)
(***************************************************************************)
\* C20: calculate_personality_type and detect_blind_spots keep no state
\* between calls and do not modify their inputs or the static tables:
\* however the invocations of several callers interleave, each one returns
\* what the function returns for its arguments when run alone (the
\* PersonalityResult with the clock reading of its own return as
\* diagnosed_at).
C20_Stateless ==
    \A c \in DOMAIN calls :
        calls[c].pc = "done" =>
            IF calls[c].kind = "diagnose"
            THEN /\ Returned(calls[c].ret)
                 /\ calls[c].ret.diagnosed_at <= now
                 /\ calls[c].ret =
                        [calculate_personality_type(calls[c].responses, calls[c].uid)
                            EXCEPT !.diagnosed_at = calls[c].ret.diagnosed_at]
            ELSE calls[c].ret =
                     [list |-> detect_blind_spots(calls[c].personality,
                                                  calls[c].journals)]

\* a scoring entered while a detection was under way, both finished, the
\* scoring with I, N, F, P and the detection with its three insights
C20_Witness ==
    /\ DOMAIN calls = Callers
    /\ calls[1].kind = "detect" /\ calls[1].pc = "done"
    /\ calls[2].kind = "diagnose" /\ calls[2].pc = "done"
    /\ calls[2].overlapped
    /\ Len(calls[1].ret.list) = 3
    /\ Len(calls[2].responses) = 4
    /\ calls[2].ret.personality_type = <<"I", "N", "F", "P">>

(***************************************************************************)
(* C21 .. C23  Firing and evidence                                         *)
(***************************************************************************)
\* needle (not empty) is a literal substring of hay
Occurs(hay, needle) ==
    \E i \in 0..(Len(hay) - Len(needle)) :
        \A k \in 1..Len(needle) : hay[i + k] = needle[k]

\* some keyword of pattern p is a substring of text
KeywordOccurs(p, text) ==
    \E k \in 1..Len(BLIND_SPOT_PATTERNS[p].keywords) :
        Occurs(text, BLIND_SPOT_PATTERNS[p].keywords[k])

\* C21: for a pattern whose pole letter is in the type code, an insight is
\* emitted if and only if at least one keyword of the pattern is a literal
\* substring of the corpus made by joining the journal contents; without a
\* keyword there is no insight for the pattern.
C21_Firing ==
    Returned(insights) =>
        \A p \in PatternIndex :
            PatternPole[p] \in Letters(result.personality_type) =>
                (InsightsFor(p) # {} <=> KeywordOccurs(p, Corpus))

\* type INFP, two journals holding no keyword but the third I keyword: the
\* I pattern fires, the P and F patterns do not
C21_Witness ==
    /\ Returned(insights)
    /\ result.personality_type = <<"I", "N", "F", "P">>
    /\ Len(journals) = 2
    /\ KeywordOccurs(6, Corpus)
    /\ ~Occurs(Corpus, BLIND_SPOT_PATTERNS[6].keywords[1])
    /\ ~KeywordOccurs(1, Corpus) /\ ~KeywordOccurs(4, Corpus)
    /\ Len(insights.list) = 1
    /\ InsightsFor(6) = {1}

\* the journals (by position) whose own content holds a keyword of pattern p
MatchingEntries(p) == {j \in 1..Len(journals) : KeywordOccurs(p, journals[j].content)}

\* the n-th smallest member of a set of numbers
NthOf(S, n) == CHOOSE x \in S : Cardinality({y \in S : y < x}) = n - 1

Smaller(a, b) == IF a < b THEN a ELSE b

\* the date written in the prefix of an evidence line
LineDate(line) ==
    [year |-> 1000 * (line[2] - 48) + 100 * (line[3] - 48)
                  + 10 * (line[4] - 48) + (line[5] - 48),
     month |-> 10 * (line[7] - 48) + (line[8] - 48),
     day |-> 10 * (line[10] - 48) + (line[11] - 48)]

\* C22: the evidence of an insight is made of the first (at most three)
\* journal entries, in the order given, whose own content holds a matched
\* keyword: one line per such entry, even when it holds several matched
\* keywords, and no line for an entry holding none.
C22_EvidenceSelection ==
    Returned(insights) =>
        \A p \in PatternIndex :
            \A k \in InsightsFor(p) :
                LET evidence == insights.list[k].evidence
                    entries == MatchingEntries(p)
                IN  /\ Len(evidence) = Smaller(3, Cardinality(entries))
                    /\ \A e \in 1..Len(evidence) :
                           LET journal == journals[NthOf(entries, e)]
                               kept == Smaller(50, Len(journal.content))
                           IN  /\ HasDatePrefix(evidence[e])
                               /\ LineDate(evidence[e]) = journal.date
                               /\ Len(ExcerptIn(evidence[e])) >= kept
                               /\ SubSeq(ExcerptIn(evidence[e]), 1, kept)
                                      = SubSeq(journal.content, 1, kept)

\* type with P: the first journal holds every keyword, the second none, the
\* third and fourth one P keyword each: lines for journals 1, 3 and 4
C22_Witness ==
    /\ Returned(insights)
    /\ "P" \in Letters(result.personality_type)
    /\ Len(journals) = 4
    /\ \A p \in PatternIndex :
           \A w \in 1..3 : Occurs(journals[1].content, BLIND_SPOT_PATTERNS[p].keywords[w])
    /\ journals[2].date # journals[1].date
    /\ MatchingEntries(1) = {1, 3, 4}
    /\ InsightsFor(1) = {1}
    /\ Len(insights.list[1].evidence) = 3
    /\ LineDate(insights.list[1].evidence[2]) = journals[3].date

\* C23: an excerpt is the first 50 characters of the entry followed by
\* "..." exactly when the entry's content is longer than 50 characters, and
\* the whole content without the marker when it has 50 characters or
\* fewer; every excerpt is preceded by the entry's date.
C23_Truncation ==
    Returned(insights) =>
        \A p \in PatternIndex :
            \A k \in InsightsFor(p) :
                \A e \in 1..Len(insights.list[k].evidence) :
                    LET line == insights.list[k].evidence[e]
                        journal == journals[NthOf(MatchingEntries(p), e)]
                    IN  /\ HasDatePrefix(line)
                        /\ LineDate(line) = journal.date
                        /\ Len(journal.content) > 50
                               => ExcerptIn(line) = SubSeq(journal.content, 1, 50)
                                                        \o <<46, 46, 46>>
                        /\ Len(journal.content) <= 50
                               => ExcerptIn(line) = journal.content

\* type with J: a content of 51 characters whose last two are the keyword
\* (cut to 50 and marked) and, after it, one of 109 characters
C23_Witness ==
    /\ Returned(insights)
    /\ "J" \in Letters(result.personality_type)
    /\ Len(journals) = 2
    /\ Len(journals[1].content) = 51
    /\ Len(journals[2].content) > 51
    /\ InsightsFor(2) = {1}
    /\ Len(insights.list[1].evidence) = 2
    /\ Len(ExcerptIn(insights.list[1].evidence[1])) = 53
    /\ ~Occurs(ExcerptIn(insights.list[1].evidence[1]), BLIND_SPOT_PATTERNS[2].keywords[3])

(***************************************************************************)
(* C29  Every insight has evidence                                         *)
(***************************************************************************)
\* C29: every emitted insight has at least one evidence line: a keyword
\* found in the space-joined corpus is found inside at least one entry, no
\* configured keyword matching only across the boundary of two entries.
C29_EvidenceExists ==
    Returned(insights) =>
        /\ \A k \in 1..Len(insights.list) : Len(insights.list[k].evidence) >= 1
        /\ \A p \in PatternIndex :
               KeywordOccurs(p, Corpus) => MatchingEntries(p) # {}

\* type with J and F: the halves of the J keyword end one journal and begin
\* the next without an insight; the F keyword inside one journal gives one
C29_Witness ==
    /\ Returned(insights)
    /\ "J" \in Letters(result.personality_type)
    /\ "F" \in Letters(result.personality_type)
    /\ Len(journals) = 3
    /\ journals[1].content[Len(journals[1].content)] = BLIND_SPOT_PATTERNS[2].keywords[3][1]
    /\ journals[2].content[1] = BLIND_SPOT_PATTERNS[2].keywords[3][2]
    /\ InsightsFor(2) = {}
    /\ InsightsFor(4) = {1}
    /\ Len(insights.list[1].evidence) = 1

(***************************************************************************)
(* C30  Insight count bound                                                *)
(***************************************************************************)
\* C30: for every type code the scoring produces and every journal list
\* there are at most 3 insights, at most one from each of the pairs E/I,
\* T/F and J/P, and none for the letters S and N, which no pattern has.
C30_CountBound ==
    Returned(insights) =>
        /\ Len(insights.list) <= 3
        /\ Cardinality(InsightsFor(5) \cup InsightsFor(6)) <= 1
        /\ Cardinality(InsightsFor(3) \cup InsightsFor(4)) <= 1
        /\ Cardinality(InsightsFor(1) \cup InsightsFor(2)) <= 1
        /\ \A k \in 1..Len(insights.list) :
               /\ insights.list[k].category # CategoryOf("S")
               /\ insights.list[k].category # CategoryOf("N")
               /\ insights.list[k].category[1] \notin {83, 78}

\* type ESTP with every keyword of every pattern in the journals: the three
\* insights P, T, E and nothing for S
C30_Witness ==
    /\ Returned(insights)
    /\ result = calculate_personality_type(responses, user_id)
    /\ result.personality_type = <<"E", "S", "T", "P">>
    /\ \A p \in PatternIndex : KeywordOccurs(p, Corpus)
    /\ Len(insights.list) = 3
    /\ InsightsFor(1) = {1} /\ InsightsFor(3) = {2} /\ InsightsFor(5) = {3}

(***************************************************************************)
(* C24  Full-completion gate                                               *)
(***************************************************************************)
\* C24: in the questionnaire session, whatever the sequence of start,
\* answer, next-page, previous-page and reset actions, submit_diagnostic
\* (and with it calculate_personality_type) is invoked only when each of
\* the 30 catalog questions has a recorded answer: the list it hands over
\* holds exactly one answer to every question, and a result exists only
\* for such a list.
C24_FullCompletion ==
    /\ responses # << >> =>
           /\ Len(responses) = 30
           /\ \A q \in 1..30 :
                  Cardinality({k \in 1..Len(responses) : responses[k].question_id = q}) = 1
    /\ Returned(result) => responses # << >>
    /\ session # NoResult =>
           /\ session.diagnostic_complete => Returned(result)
           /\ session.diagnostic_complete =>
                  \A k \in 1..Len(responses) :
                      /\ session.responses[k].question_id = responses[k].question_id
                      /\ session.responses[k].score = responses[k].score

\* a session submitted and reset, then a second one on its last page with
\* 29 answers: nothing new has been scored
C24_Witness ==
    /\ session # NoResult
    /\ session.diagnostic_started
    /\ ~session.diagnostic_complete
    /\ session.current_page = 5
    /\ Len(session.responses) = 29
    /\ Len(responses) = 30
    /\ responses[30].score = 5
    /\ result = NoResult

(***************************************************************************)
(* C25 .. C27  Relations between the scores of two answer lists            *)
(***************************************************************************)
\* the list with the answers at positions i and j exchanged
Swap(rs, i, j) ==
    [k \in 1..Len(rs) |-> IF k = i THEN rs[j] ELSE IF k = j THEN rs[i] ELSE rs[k]]

\* the exchanges tried on a list: every pair of positions of a short list,
\* the neighbouring pairs and the two ends of a long one
ShortList == 4
Exchanges(rs) ==
    {pair \in (1..Len(rs)) \X (1..Len(rs)) :
        /\ pair[1] < pair[2]
        /\ \/ Len(rs) <= ShortList
           \/ pair[2] = pair[1] + 1
           \/ (pair[1] = 1 /\ pair[2] = Len(rs))}

\* two DimensionScores with the same totals, strength and dominant pole
SameScore(x, y) ==
    /\ x.first_score = y.first_score
    /\ x.second_score = y.second_score
    /\ x.strength_percent = y.strength_percent
    /\ x.dominant_type = y.dominant_type

\* C25: for every answer list and axis, calculate_dimension_score returns
\* the same totals, strength and dominant pole for every permutation of the
\* list (checked for the exchange of two answers, which generates the
\* permutations, and for the list reversed).
C25_OrderIndependence ==
    Returned(result) =>
        \A a \in Axes :
            /\ SameScore(calculate_dimension_score(Reverse(responses), AxisCode[a]),
                         result.dimension_scores[a])
            /\ \A pair \in Exchanges(responses) :
                   SameScore(calculate_dimension_score(
                                 Swap(responses, pair[1], pair[2]), AxisCode[a]),
                             result.dimension_scores[a])

\* question 1 answered 5 and then 1: E = 4, I = 4 in either order
C25_Witness ==
    /\ Returned(result)
    /\ Len(responses) = 2
    /\ responses[1].question_id = 1 /\ responses[1].score = 5
    /\ responses[2].question_id = 1 /\ responses[2].score = 1
    /\ result.dimension_scores[1].first_score = 4
    /\ result.dimension_scores[1].second_score = 4

\* every score v replaced by 6 - v
Mirror(rs) == [k \in 1..Len(rs) |-> [rs[k] EXCEPT !.score = 6 - @]]

\* C26: replacing every score v by 6 - v exchanges first_score and
\* second_score on every axis, leaves strength_percent as it is and moves
\* the dominant pole to the other side on every axis whose totals are not
\* tied; a tied axis stays on the first pole.
C26_MirrorSymmetry ==
    Returned(result) =>
        \A a \in Axes :
            LET ds == result.dimension_scores[a]
                mirrored == calculate_dimension_score(Mirror(responses), AxisCode[a])
            IN  /\ mirrored # ValidationError
                /\ mirrored.first_score = ds.second_score
                /\ mirrored.second_score = ds.first_score
                /\ mirrored.strength_percent = ds.strength_percent
                /\ ds.first_score > ds.second_score
                       => ds.dominant_type = FirstPole[a]
                          /\ mirrored.dominant_type = SecondPole[a]
                /\ ds.first_score < ds.second_score
                       => ds.dominant_type = SecondPole[a]
                          /\ mirrored.dominant_type = FirstPole[a]
                /\ ds.first_score = ds.second_score
                       => ds.dominant_type = FirstPole[a]
                          /\ mirrored.dominant_type = FirstPole[a]

\* question 1 answered 5 (E = 4, I = 0; mirrored E = 0, I = 4) and question
\* 9 answered 3 (S = N = 2, tied both ways)
C26_Witness ==
    /\ Returned(result)
    /\ Len(responses) = 2
    /\ responses[1].question_id = 1 /\ responses[1].score = 5
    /\ responses[2].question_id = 9 /\ responses[2].score = 3
    /\ result.personality_type[1] = "E"
    /\ calculate_dimension_score(Mirror(responses), "EI").dominant_type = "I"
    /\ result.dimension_scores[2].strength_percent = 0

\* the list with the score of the answer at position k raised by 1
Raised(rs, k) == [rs EXCEPT ![k].score = @ + 1]
\* the axis (by number) of a catalog question
AxisOf(q) == CHOOSE a \in Axes : q \in AxisIds[a]

\* C27: raising one answer's score by 1, the others unchanged, adds exactly
\* 1 to first_score and takes exactly 1 from second_score on a POSITIVE
\* question and does the opposite on a NEGATIVE one; the position of the
\* axis in the comparison therefore never moves toward the second pole
\* when a POSITIVE answer is raised.
C27_Monotonicity ==
    Returned(result) =>
        \A k \in 1..Len(responses) :
            (responses[k].score < 5 /\ responses[k].question_id \in 1..30) =>
                LET a == AxisOf(responses[k].question_id)
                    ds == result.dimension_scores[a]
                    up == calculate_dimension_score(Raised(responses, k), AxisCode[a])
                IN  IF get_question_by_id(responses[k].question_id).direction = POSITIVE
                    THEN /\ up.first_score = ds.first_score + 1
                         /\ up.second_score = ds.second_score - 1
                         /\ position(up, FirstPole[a]) <= position(ds, FirstPole[a])
                    ELSE /\ up.first_score = ds.first_score - 1
                         /\ up.second_score = ds.second_score + 1

\* questions 1 (POSITIVE) and 2 (NEGATIVE) both answered 3: raising the
\* first moves the marker from 0.5 to 0.375
C27_Witness ==
    /\ Returned(result)
    /\ Len(responses) = 2
    /\ responses[1].question_id = 1 /\ responses[1].score = 3
    /\ responses[2].question_id = 2 /\ responses[2].score = 3
    /\ position(result.dimension_scores[1], "E") = Half
    /\ 8 * position(calculate_dimension_score(Raised(responses, 1), "EI"), "E") = 3 * Scale

(***************************************************************************)
(* C28  Position agrees with the totals                                    *)
(***************************************************************************)
\* the marker of axis a is on the side of the larger total, and in the
\* middle exactly on a tie
PositionAgrees(a) ==
    LET row == comparison.rows[a]
        ds == ScoreOn(comparison.personality, a)
    IN  /\ 2 * row.diag_val < Scale <=> ds.first_score > ds.second_score
        /\ 2 * row.diag_val > Scale <=> ds.second_score > ds.first_score
        /\ 2 * row.diag_val = Scale <=> ds.first_score = ds.second_score

AnsweredAtMostOnce(rs, a) ==
    Cardinality(AnswersOn(rs, a)) = Cardinality(AnsweredQuestions(rs, a))

====
